---- MODULE Spec2Model ----
(***************************************************************************)
(* The data pipeline of app.py: load_data, the sidebar selection,          *)
(* filter_dataframe, the aggregations of the tabs and the three hypothesis *)
(* evaluations, as a state machine over one run of main().                 *)
(*                                                                         *)
(* A table is [columns |-> set of column names, rows |-> sequence of       *)
(* [index |-> pandas index label, cell |-> [column -> value]]].            *)
(* A categorical cell is a string, NaN when missing; a numeric cell is an  *)
(* integer, NaNNum when missing.  An inclusion list of the sidebar is      *)
(* modelled as the set of its members (the code only tests it for          *)
(* emptiness and membership).                                              *)
(* Column names and category labels that are not ASCII in the source are   *)
(* given ASCII tags here; the definitions carry the source's variable      *)
(* names (activity_freq_col, social_col, general_health_col, ...).         *)
(***************************************************************************)
EXTENDS Integers, Sequences, FiniteSets, TLC

VARIABLES pc, raw, df, selected, filtered_df, refiltered_df, error,
          tab1, tab2, tab3, tab4, h1, h2, h3

vars == <<pc, raw, df, selected, filtered_df, refiltered_df, error,
          tab1, tab2, tab3, tab4, h1, h2, h3>>

(***************************************************************************)
(* Bounds of the model.                                                    *)
(***************************************************************************)
MaxFilterRows == 2
MaxRows == 2
MaxAbsent == 1
MaxDeselect == 1
MaxHypRows == 2
MaxCorrRows == 3
MaxPreferenceRows == 2

(***************************************************************************)
(* Missing values.                                                         *)
(***************************************************************************)
NaN == "NaN"
NaNNum == -1

(***************************************************************************)
(* Column names.                                                           *)
(***************************************************************************)
duration_column == "How long does a client receive services funded by World Jewish Relief?"
rating_col == "How would you rate the help you receive (1 - it's not enough, 5 - everything is perfect)?"
activity_freq_col == "activity_freq_col"
social_col == "social_col"
friends_col == "friends_col"
physical_rating_col == "physical_rating_col"
health_control_col == "health_control_col"
general_health_col == "general_health_col"

chronic_columns ==
    << "chronic cardiovascular", "Diabetes", "Respiratory diseases",
       "Musculoskeletal disorders", "Neurological disorders", "Dementia",
       "Oncological diseases", "Vision or hearing impairments",
       "Physical limitations due to injuries or disability",
       "Other (please specify)", "No chronic diseases or physical limitations" >>

activity_columns ==
    << "activity volunteers social", "Social events", "Interest-based clubs",
       "Home care", "Psychological support (group)", "Psychological support (individual)",
       "Warm ome / Welcoming space", "Physical rehabilitation", "Physical activities" >>

service_columns ==
    << "None of the above", "Purchase of tablets or phones",
       "Mobility or exercise equipment", "Medical treatment", "Medical devices",
       "Delivery of food packages/hot meals", "Medical support",
       "Delivery of blood pressure/oximeters", "Winter assistance",
       "Other material assistance" >>

binary_columns == chronic_columns \o activity_columns \o service_columns

Range(s) == {s[i] : i \in 1..Len(s)}

\* The eight dimensions of the sidebar, in the order of filter_dataframe's parameters.
Dimensions ==
    << "country", "region", "Partner", "client_age_range", "client_gender",
       "client_new", duration_column, "client_victim_of_nazism_status" >>

\* Columns read as numbers by read_csv (indicator columns are coerced by load_data).
NumericColumns == {rating_col, physical_rating_col, "ID"}

\* The missing marker of a column's cells.
Missing(col) ==
    IF col \in NumericColumns \cup Range(binary_columns) THEN NaNNum ELSE NaN

\* Every column of the input schema the program reads.
AllColumns ==
    Range(Dimensions) \cup Range(binary_columns) \cup NumericColumns
      \cup {activity_freq_col, social_col, friends_col, health_control_col, general_health_col}

(***************************************************************************)
(* Tables.                                                                 *)
(***************************************************************************)
NRows(t) == Len(t.rows)

EmptyTable == [columns |-> {}, rows |-> << >>]

\* A boolean-indexed selection t[mask]: the rows whose cells satisfy Keep, index kept.
SelectRows(t, Keep(_)) == [t EXCEPT !.rows = SelectSeq(t.rows, LAMBDA r : Keep(r.cell))]

\* The index labels of a table, in row order.
IndexOf(t) == [i \in 1..NRows(t) |-> t.rows[i].index]

\* df[col] = values, one per row: a new or replaced column.
WithColumn(t, col, Value(_)) ==
    [columns |-> t.columns \cup {col},
     rows |-> [i \in 1..NRows(t) |->
                 [index |-> t.rows[i].index,
                  cell |-> [c \in t.columns \cup {col} |->
                              IF c = col THEN Value(t.rows[i].cell) ELSE t.rows[i].cell[c]]]]]

(***************************************************************************)
(* load_data.                                                              *)
(***************************************************************************)
\* The number a cell's text denotes; NaNNum for an empty or non-numeric cell.
ParseNumber(s) ==
    CASE s = "0" -> 0 [] s = "1" -> 1 [] s = "2" -> 2 [] s = "3" -> 3
      [] s = "4" -> 4 [] s = "5" -> 5 [] s = "6" -> 6 [] s = "7" -> 7
      [] s = "8" -> 8 [] s = "9" -> 9 [] s = "10" -> 10
      [] OTHER -> NaNNum

\* pd.read_csv: row i gets index i-1; an empty cell is missing; the cells of a
\* numeric column are numbers; every other cell keeps its text.
read_csv(csv) ==
    [columns |-> csv.columns,
     rows |-> [i \in 1..Len(csv.rows) |->
                 [index |-> i - 1,
                  cell |-> [c \in csv.columns |->
                              IF c \in NumericColumns THEN ParseNumber(csv.rows[i][c])
                              ELSE IF csv.rows[i][c] = "" THEN NaN
                              ELSE csv.rows[i][c]]]]]

\* pd.to_numeric(errors='coerce') on one cell of an indicator column.
to_numeric(v) == IF v = NaN THEN NaNNum ELSE ParseNumber(v)

\* DataFrame.sum / Series.sum over numeric cells: missing values are skipped.
RECURSIVE SumCells(_, _)
SumCells(cell, cols) ==
    IF cols = << >> THEN 0
    ELSE (IF cell[Head(cols)] = NaNNum THEN 0 ELSE cell[Head(cols)])
           + SumCells(cell, Tail(cols))

\* A variant that adds the composite from whichever columns of the group exist.
AddCountAvailable(t, name, group) ==
    WithColumn(t, name,
               LAMBDA cell : SumCells(cell, SelectSeq(group, LAMBDA col : col \in t.columns)))

\* A composite count column, added only when every column of the group is present.
AddCount(t, name, group) ==
    IF Range(group) \subseteq t.columns
    THEN WithColumn(t, name, LAMBDA cell : SumCells(cell, group))
    ELSE t

load_data(csv) ==
    LET df0 == read_csv(csv)
        df1 == [columns |-> df0.columns,
                rows |-> [i \in 1..NRows(df0) |->
                            [index |-> df0.rows[i].index,
                             cell |-> [c \in df0.columns |->
                                         IF c \in Range(binary_columns)
                                         THEN to_numeric(df0.rows[i].cell[c])
                                         ELSE df0.rows[i].cell[c]]]]]
    IN  AddCount(AddCount(AddCount(df1, "chronic_count", chronic_columns),
                          "activity_count", activity_columns),
                 "service_count", service_columns)

(***************************************************************************)
(* filter_dataframe.                                                       *)
(***************************************************************************)
\* Series.isin(values) on one cell: a missing cell is in no list of options.
isin(v, values) == v \in values

\* A variant that also lets a missing cell through.
FilterStepKeepsMissing(filtered, df_, col, values) ==
    IF values # {} /\ col \in df_.columns
    THEN SelectRows(filtered, LAMBDA cell : cell[col] = NaN \/ isin(cell[col], values))
    ELSE filtered

\* A variant whose slice starts one row late.
FilterStepDropsFirst(filtered, df_, col, values) ==
    IF values # {} /\ col \in df_.columns
    THEN [filtered EXCEPT !.rows =
            IF SelectSeq(filtered.rows, LAMBDA r : isin(r.cell[col], values)) = << >>
            THEN << >>
            ELSE Tail(SelectSeq(filtered.rows, LAMBDA r : isin(r.cell[col], values)))]
    ELSE filtered

\* A variant that renumbers the rows it keeps.
FilterStepResetsIndex(filtered, df_, col, values) ==
    IF values # {} /\ col \in df_.columns
    THEN LET kept == SelectSeq(filtered.rows, LAMBDA r : isin(r.cell[col], values))
         IN  [filtered EXCEPT !.rows =
                [i \in 1..Len(kept) |-> [index |-> i - 1, cell |-> kept[i].cell]]]
    ELSE filtered

\* One "if <list> and <col> in df.columns: filtered_df = filtered_df[...isin(<list>)]".
FilterStep(filtered, df_, col, values) ==
    IF values # {} /\ col \in df_.columns
    THEN SelectRows(filtered, LAMBDA cell : isin(cell[col], values))
    ELSE filtered

filter_dataframe(df_, country, region, partner, age_range, gender, new_client, duration, victim_status) ==
    LET f0 == df_
        f1 == FilterStep(f0, df_, "country", country)
        f2 == FilterStep(f1, df_, "region", region)
        f3 == FilterStep(f2, df_, "Partner", partner)
        f4 == FilterStep(f3, df_, "client_age_range", age_range)
        f5 == FilterStep(f4, df_, "client_gender", gender)
        f6 == FilterStep(f5, df_, "client_new", new_client)
        f7 == FilterStep(f6, df_, duration_column, duration)
        f8 == FilterStep(f7, df_, "client_victim_of_nazism_status", victim_status)
    IN  f8

\* filter_dataframe applied to a criteria mapping (dimension -> inclusion list).
Filter(df_, c) ==
    filter_dataframe(df_, c["country"], c["region"], c["Partner"], c["client_age_range"],
                     c["client_gender"], c["client_new"], c[duration_column],
                     c["client_victim_of_nazism_status"])

(***************************************************************************)
(* The sidebar of main(): the option list of each dimension and the        *)
(* selection the user leaves in it.                                        *)
(***************************************************************************)
\* sorted(df[col].dropna().unique().tolist()), as a set.
Options(t, col) == {v \in {t.rows[i].cell[col] : i \in 1..NRows(t)} : v # Missing(col)}

country_options(df_) == Options(df_, "country")

region_options(df_, selected_country) ==
    IF selected_country # {} /\ "country" \in df_.columns
    THEN Options(SelectRows(df_, LAMBDA cell : isin(cell["country"], selected_country)), "region")
    ELSE Options(df_, "region")

partner_options(df_, selected_country, selected_region) ==
    LET p0 == df_
        p1 == IF selected_country # {} /\ "country" \in df_.columns
              THEN SelectRows(p0, LAMBDA cell : isin(cell["country"], selected_country))
              ELSE p0
        p2 == IF selected_region # {} /\ "region" \in df_.columns
              THEN SelectRows(p1, LAMBDA cell : isin(cell["region"], selected_region))
              ELSE p1
    IN  Options(p2, "Partner")

\* st.multiselect(options=options, default=options): the options minus the ones the
\* user removed.
Multiselect(col, options, removed) ==
    options \ {p[2] : p \in {q \in removed : q[1] = col}}

\* The eight selections, given the (dimension, option) pairs the user deselected;
\* the empty list for a dimension whose column is absent.
\* With removed = {} this is the default state: every option preselected.
Sidebar(df_, removed) ==
    LET selected_country ==
            IF "country" \in df_.columns
            THEN Multiselect("country", country_options(df_), removed)
            ELSE {}
        selected_region ==
            IF "region" \in df_.columns
            THEN Multiselect("region", region_options(df_, selected_country), removed)
            ELSE {}
        selected_partner ==
            IF "Partner" \in df_.columns
            THEN Multiselect("Partner",
                             partner_options(df_, selected_country, selected_region), removed)
            ELSE {}
        Plain(col) == IF col \in df_.columns
                      THEN Multiselect(col, Options(df_, col), removed)
                      ELSE {}
    IN  [d \in Range(Dimensions) |->
           CASE d = "country" -> selected_country
             [] d = "region" -> selected_region
             [] d = "Partner" -> selected_partner
             [] OTHER -> Plain(d)]

\* The (dimension, option) pairs the user can deselect.
Deselectable(df_) ==
    UNION {{<<d, v>> : v \in Options(df_, d)} : d \in Range(Dimensions) \cap df_.columns}

RECURSIVE SubsetsUpTo(_, _)
SubsetsUpTo(S, k) ==
    IF k = 0 THEN {{}}
    ELSE LET P == SubsetsUpTo(S, k - 1) IN P \cup {p \cup {x} : p \in P, x \in S}

RECURSIVE SeqsUpTo(_, _)
\* The sequences over S of length at most n.
SeqsUpTo(S, n) ==
    IF n = 0 THEN {<< >>}
    ELSE LET P == SeqsUpTo(S, n - 1) IN P \cup {Append(p, x) : p \in {q \in P : Len(q) = n - 1}, x \in S}

(***************************************************************************)
(* Arithmetic of the aggregations.  A mean or a percentage is the exact    *)
(* fraction [num, den]; den = 0 is the undefined value (NaN) that pandas   *)
(* returns for an empty mean.                                              *)
(***************************************************************************)
Frac(n, d) == [num |-> n, den |-> d]

Undefined == Frac(0, 0)

IsUndefined(x) == x.den = 0

\* x < y and x > y on floats: False when either side is NaN.
FracLess(x, y) == x.den # 0 /\ y.den # 0 /\ x.num * y.den < y.num * x.den

\* round(): to the nearest integer, a tie to the even one (n >= 0, d > 0).
RoundHalfEven(n, d) ==
    LET q == n \div d
        r == n % d
    IN  IF 2 * r < d THEN q
        ELSE IF 2 * r > d THEN q + 1
        ELSE IF q % 2 = 0 THEN q ELSE q + 1

\* Series.round(2) of a mean, in hundredths; NaN stays NaN.
Round2(x) == IF x.den = 0 THEN Undefined ELSE Frac(RoundHalfEven(x.num * 100, x.den), 100)

\* A variant that rounds to a whole percent.
RoundWholePercent(count, total) == Frac(RoundHalfEven(count * 100, total) * 10, 10)

\* (count / total * 100).round(1), in tenths.
Round1Percent(count, total) == Frac(RoundHalfEven(count * 1000, total), 10)

\* The rows of t, as the set of their positions, whose cell of col satisfies P.
RowsWhere(t, P(_)) == {i \in 1..NRows(t) : P(t.rows[i].cell)}

RECURSIVE SumOver(_, _)
\* The sum of f[i] over the finite set S.
SumOver(f, S) ==
    IF S = {} THEN 0
    ELSE LET x == CHOOSE y \in S : TRUE IN f[x] + SumOver(f, S \ {x})

\* Series.sum(): the sum of the non-missing cells of a numeric column.
ColumnSum(t, col) ==
    SumOver([i \in 1..NRows(t) |-> IF t.rows[i].cell[col] = NaNNum THEN 0 ELSE t.rows[i].cell[col]],
            1..NRows(t))

\* Series.mean() over the rows in S: the mean of the non-missing cells, NaN when none.
MeanOver(t, col, S) ==
    LET present == {i \in S : t.rows[i].cell[col] # NaNNum}
    IN  Frac(SumOver([i \in 1..NRows(t) |-> t.rows[i].cell[col]], present), Cardinality(present))

\* Series.count() over the rows in S.
CountOver(t, col, S) == Cardinality({i \in S : t.rows[i].cell[col] # NaNNum})

\* Series.value_counts(): the observed (non-missing) categories with their counts.
value_counts(t, col) ==
    [v \in Options(t, col) |-> Cardinality(RowsWhere(t, LAMBDA cell : cell[col] = v))]

\* counts['Count'].sum().
Total(counts) == SumOver(counts, DOMAIN counts)

\* A categorical distribution: value_counts(), the total, and each category's
\* percentage, guarded by "if total > 0"; rounded to one decimal where the code rounds.
Distribution(t, col, rounded) ==
    LET counts == value_counts(t, col)
        total == Total(counts)
    IN  [shown |-> TRUE, counts |-> counts, total |-> total,
         percentage |-> [v \in DOMAIN counts |->
                           IF total > 0
                           THEN (IF rounded THEN Round1Percent(counts[v], total)
                                 ELSE Frac(counts[v] * 100, total))
                           ELSE Frac(0, 1)]]

\* The output of a section whose "if <col> in filtered_df.columns" is false.
Skipped == [shown |-> FALSE]

RECURSIVE InsertDescending(_, _)
\* Insert x into the sequence s, sorted by descending Count, after its equals.
InsertDescending(s, x) ==
    IF s = << >> THEN <<x>>
    ELSE IF Head(s).Count >= x.Count THEN <<Head(s)>> \o InsertDescending(Tail(s), x)
    ELSE <<x>> \o s

\* A variant that leaves the lines in the order of the group's columns.
Unsorted(s) == s

RECURSIVE SortDescending(_)
\* sort_values('Count', ascending=False): equal counts keep their order.
SortDescending(s) ==
    IF s = << >> THEN << >>
    ELSE InsertDescending(SortDescending(SubSeq(s, 1, Len(s) - 1)), s[Len(s)])

\* A variant that summarises a group only when the table holds all its columns.
IndicatorSummaryWholeGroup(t, group) ==
    LET available == SelectSeq(group, LAMBDA col : col \in t.columns)
        total_respondents == NRows(t)
        data == [k \in 1..Len(available) |->
                   IF total_respondents > 0
                   THEN [Name |-> available[k],
                         Count |-> ColumnSum(t, available[k]),
                         Percentage |-> Frac(ColumnSum(t, available[k]) * 100, total_respondents)]
                   ELSE [Name |-> available[k], Count |-> 0, Percentage |-> Frac(0, 1)]]
    IN  IF available # group THEN Skipped
        ELSE [shown |-> TRUE, available |-> available, rows |-> SortDescending(data)]

\* The summary of an indicator group over the group's available columns.
IndicatorSummary(t, group) ==
    LET available == SelectSeq(group, LAMBDA col : col \in t.columns)
        total_respondents == NRows(t)
        data == [k \in 1..Len(available) |->
                   IF total_respondents > 0
                   THEN [Name |-> available[k],
                         Count |-> ColumnSum(t, available[k]),
                         Percentage |-> Frac(ColumnSum(t, available[k]) * 100, total_respondents)]
                   ELSE [Name |-> available[k], Count |-> 0, Percentage |-> Frac(0, 1)]]
    IN  IF available = << >> THEN Skipped
        ELSE [shown |-> TRUE, available |-> available, rows |-> SortDescending(data)]

\* A variant that takes the statistics of the second column over every row where
\* that column is present instead of over the rows where both are.
PearsonOneSided(t, xcol, ycol) ==
    LET both == {i \in 1..NRows(t) : t.rows[i].cell[xcol] # NaNNum /\ t.rows[i].cell[ycol] # NaNNum}
        ys == {i \in 1..NRows(t) : t.rows[i].cell[ycol] # NaNNum}
        n == Cardinality(both)
        X == [i \in 1..NRows(t) |-> t.rows[i].cell[xcol]]
        Y == [i \in 1..NRows(t) |-> t.rows[i].cell[ycol]]
        Sx == SumOver(X, both)
        Sy == SumOver(Y, both)
        Sxy == SumOver([i \in 1..NRows(t) |-> X[i] * Y[i]], both)
        Sxx == SumOver([i \in 1..NRows(t) |-> X[i] * X[i]], both)
        Syy == SumOver([i \in 1..NRows(t) |-> Y[i] * Y[i]], ys)
        cov == n * Sxy - Sx * Sy
        varx == n * Sxx - Sx * Sx
        vary == Cardinality(ys) * Syy - SumOver(Y, ys) * SumOver(Y, ys)
    IN  [defined |-> n >= 2 /\ varx > 0 /\ vary > 0, cov |-> cov, varx |-> varx, vary |-> vary]

\* Pearson's r of two numeric columns over the rows where both are present, as the
\* exact quantities cov = n*Sxy - Sx*Sy, varx = n*Sxx - Sx^2, vary = n*Syy - Sy^2:
\* r = cov / sqrt(varx * vary), undefined (NaN) with fewer than two such rows or a
\* zero variance.
Pearson(t, xcol, ycol) ==
    LET both == {i \in 1..NRows(t) : t.rows[i].cell[xcol] # NaNNum /\ t.rows[i].cell[ycol] # NaNNum}
        n == Cardinality(both)
        X == [i \in 1..NRows(t) |-> t.rows[i].cell[xcol]]
        Y == [i \in 1..NRows(t) |-> t.rows[i].cell[ycol]]
        Sx == SumOver(X, both)
        Sy == SumOver(Y, both)
        Sxy == SumOver([i \in 1..NRows(t) |-> X[i] * Y[i]], both)
        Sxx == SumOver([i \in 1..NRows(t) |-> X[i] * X[i]], both)
        Syy == SumOver([i \in 1..NRows(t) |-> Y[i] * Y[i]], both)
        cov == n * Sxy - Sx * Sy
        varx == n * Sxx - Sx * Sx
        vary == n * Syy - Sy * Sy
    IN  [defined |-> n >= 2 /\ varx > 0 /\ vary > 0, cov |-> cov, varx |-> varx, vary |-> vary]

\* abs(r) < 0.1, r > 0.1 and r <= -0.1 on floats: all False when r is NaN.
AbsLessTenth(r) == r.defined /\ 100 * r.cov * r.cov < r.varx * r.vary
GreaterTenth(r) == r.defined /\ r.cov > 0 /\ 100 * r.cov * r.cov > r.varx * r.vary
AtMostMinusTenth(r) == r.defined /\ r.cov < 0 /\ 100 * r.cov * r.cov >= r.varx * r.vary
EqualsTenth(r) == r.defined /\ r.cov > 0 /\ 100 * r.cov * r.cov = r.varx * r.vary

\* DataFrame.corr() over a list of columns.
CorrMatrix(t, cols) == [a \in Range(cols) |-> [b \in Range(cols) |-> Pearson(t, a, b)]]

\* A variant that keeps a line for every observed rowcol category, also one with
\* no answer in colcol, and divides by the line's total all the same.
crosstabEveryRow(t, rowcol, colcol) ==
    LET both == SelectRows(t, LAMBDA cell : cell[rowcol] # NaN /\ cell[colcol] # NaN)
    IN  [index |-> Options(t, rowcol),
         columns |-> Options(both, colcol),
         cell |-> [r \in Options(t, rowcol) |-> [c \in Options(both, colcol) |->
                     Frac(100 * Cardinality(RowsWhere(both, LAMBDA cell : cell[rowcol] = r /\ cell[colcol] = c)),
                          Cardinality(RowsWhere(both, LAMBDA cell : cell[rowcol] = r)))]]]

\* pd.crosstab(t[rowcol], t[colcol], normalize='index') * 100: over the rows where
\* both cells are present, one line per observed rowcol category and one column per
\* observed colcol category, each cell its share of the line's total in percent.
crosstab(t, rowcol, colcol) ==
    LET both == SelectRows(t, LAMBDA cell : cell[rowcol] # NaN /\ cell[colcol] # NaN)
    IN  [index |-> Options(both, rowcol),
         columns |-> Options(both, colcol),
         cell |-> [r \in Options(both, rowcol) |-> [c \in Options(both, colcol) |->
                     Frac(100 * Cardinality(RowsWhere(both, LAMBDA cell : cell[rowcol] = r /\ cell[colcol] = c)),
                          Cardinality(RowsWhere(both, LAMBDA cell : cell[rowcol] = r)))]]]

(***************************************************************************)
(* Ordered tables of categories.                                           *)
(***************************************************************************)
RECURSIVE FirstAppearance(_, _, _)
\* The distinct non-missing values of column col from row i on, in order of appearance.
FirstAppearance(t, col, i) ==
    IF i > NRows(t) THEN << >>
    ELSE LET v == t.rows[i].cell[col]
             rest == FirstAppearance(t, col, i + 1)
         IN  IF v = Missing(col) THEN rest
             ELSE <<v>> \o SelectSeq(rest, LAMBDA w : w # v)

RECURSIVE InsertByKey(_, _)
\* Insert x into the sequence s, sorted by ascending key, after its equals.
InsertByKey(s, x) ==
    IF s = << >> THEN <<x>>
    ELSE IF Head(s).key <= x.key THEN <<Head(s)>> \o InsertByKey(Tail(s), x)
    ELSE <<x>> \o s

RECURSIVE SortByKey(_)
\* sort_values(<key>): ascending, equal keys keep their order, a missing key last.
SortByKey(s) ==
    IF s = << >> THEN << >>
    ELSE InsertByKey(SortByKey(SubSeq(s, 1, Len(s) - 1)), s[Len(s)])

\* value_counts().reset_index(): one line per observed category, by descending count.
CountsTable(t, col) ==
    LET cats == FirstAppearance(t, col, 1)
        counts == value_counts(t, col)
    IN  SortDescending([k \in 1..Len(cats) |-> [Category |-> cats[k], Count |-> counts[cats[k]]]])

age_order == <<"18-54", "55-69", "70-85", "85+", "unknown">>

\* A variant that ranks an unmapped category before the mapped ones.
UnmappedFirst(v) ==
    IF \E i \in 1..Len(age_order) : age_order[i] = v
    THEN (CHOOSE i \in 1..Len(age_order) : age_order[i] = v) - 1
    ELSE -1

\* age_mapping: a bracket's position in age_order; an unmapped category has none
\* (its sort_order is missing) and sorts after the mapped ones.
age_mapping(v) ==
    IF \E i \in 1..Len(age_order) : age_order[i] = v
    THEN (CHOOSE i \in 1..Len(age_order) : age_order[i] = v) - 1
    ELSE Len(age_order)

\* The keys of health_mapping with their 'order'.
health_mapping ==
    [v \in {"1. Otlichnoe", "2. Ochen horoshee", "3. Horoshee", "4. Udovletvoritelnoe", "5. Plohoe",
            "1. Excellent", "2. Very good", "3. Good", "4. Satisfactory", "5. Bad"} |->
        CASE v \in {"1. Otlichnoe", "1. Excellent"} -> 1
          [] v \in {"2. Ochen horoshee", "2. Very good"} -> 2
          [] v \in {"3. Horoshee", "3. Good"} -> 3
          [] v \in {"4. Udovletvoritelnoe", "4. Satisfactory"} -> 4
          [] OTHER -> 5]

(***************************************************************************)
(* Results of the steps of a run, before the step has run.                 *)
(***************************************************************************)
NotRun == [ran |-> FALSE]

NoSelection == [d \in Range(Dimensions) |-> {}]

(***************************************************************************)
(* One run of main() on the input file csv.                                *)
(***************************************************************************)
Start(csv) ==
    /\ raw = csv
    /\ pc = "load"
    /\ df = EmptyTable
    /\ selected = NoSelection
    /\ filtered_df = EmptyTable
    /\ refiltered_df = EmptyTable
    /\ error = "none"
    /\ tab1 = NotRun /\ tab2 = NotRun /\ tab3 = NotRun /\ tab4 = NotRun
    /\ h1 = NotRun /\ h2 = NotRun /\ h3 = NotRun

LoadData ==
    /\ pc = "load"
    /\ df' = load_data(raw)
    /\ pc' = "sidebar"
    /\ UNCHANGED <<raw, selected, filtered_df, refiltered_df, error, tab1, tab2, tab3, tab4, h1, h2, h3>>

\* The sidebar: every option is preselected and the user removes at most MaxDeselect.
SelectFilters ==
    /\ pc = "sidebar"
    /\ \E removed \in SubsetsUpTo(Deselectable(df), MaxDeselect) :
          selected' = Sidebar(df, removed)
    /\ pc' = "filter"
    /\ UNCHANGED <<raw, df, filtered_df, refiltered_df, error, tab1, tab2, tab3, tab4, h1, h2, h3>>

ApplyFilter ==
    /\ pc = "filter"
    /\ filtered_df' = Filter(df, selected)
    /\ pc' = "tab1"
    /\ UNCHANGED <<raw, df, selected, refiltered_df, error, tab1, tab2, tab3, tab4, h1, h2, h3>>

\* Tab 1: gender and age distributions, chronic-condition summary, correlation matrix.
Tab1Demographics ==
    /\ pc = "tab1"
    /\ LET cols == filtered_df.columns
           age_counts == CountsTable(filtered_df, "client_age_range")
           available_chronic_columns == SelectSeq(chronic_columns, LAMBDA col : col \in cols)
       IN  tab1' =
             [ran |-> TRUE,
              gender_counts |-> IF "client_gender" \in cols
                                THEN Distribution(filtered_df, "client_gender", TRUE)
                                ELSE Skipped,
              age_counts |-> IF "client_age_range" \in cols
                             THEN Distribution(filtered_df, "client_age_range", TRUE)
                             ELSE Skipped,
              age_sorted |-> IF "client_age_range" \in cols
                             THEN LET sorted == SortByKey([k \in 1..Len(age_counts) |->
                                                   [Category |-> age_counts[k].Category,
                                                    key |-> age_mapping(age_counts[k].Category)]])
                                  IN  [k \in 1..Len(sorted) |-> sorted[k].Category]
                             ELSE << >>,
              chronic_df |-> IndicatorSummary(filtered_df, chronic_columns),
              disease_corr |-> IF Len(available_chronic_columns) >= 2
                               THEN [shown |-> TRUE,
                                     matrix |-> CorrMatrix(filtered_df, available_chronic_columns)]
                               ELSE Skipped]
    /\ pc' = "tab2"
    /\ UNCHANGED <<raw, df, selected, filtered_df, refiltered_df, error, tab2, tab3, tab4, h1, h2, h3>>

\* Tab 2: activity and service summaries, overall help rating.
Tab2ProgramImpact ==
    /\ pc = "tab2"
    /\ LET cols == filtered_df.columns
       IN  tab2' =
             [ran |-> TRUE,
              activity_df |-> IndicatorSummary(filtered_df, activity_columns),
              service_df |-> IndicatorSummary(filtered_df, service_columns),
              avg_rating |-> IF rating_col \in cols
                             THEN MeanOver(filtered_df, rating_col, 1..NRows(filtered_df))
                             ELSE Undefined,
              rating_counts |-> IF rating_col \in cols
                                THEN Distribution(filtered_df, rating_col, FALSE)
                                ELSE Skipped]
    /\ pc' = "tab3"
    /\ UNCHANGED <<raw, df, selected, filtered_df, refiltered_df, error, tab1, tab3, tab4, h1, h2, h3>>

\* The largest cell of column c of a cross-tabulation (Series.max()).
ColumnMax(ct, c) ==
    CHOOSE m \in {ct.cell[r][c] : r \in ct.index} :
        \A r \in ct.index : ~FracLess(m, ct.cell[r][c])

\* Tab 3: activity frequency (with its cross-tabulation by age bracket and the text
\* summary, which reads the column 'Several times a week'), social-connection impact
\* (with its cross-tabulation by gender, 'unknown' dropped), friends.
Tab3Psychological ==
    /\ pc = "tab3"
    /\ LET cols == filtered_df.columns
           freq == activity_freq_col \in cols
           by_age == freq /\ "client_age_range" \in cols
           activity_by_age == crosstab(filtered_df, "client_age_range", activity_freq_col)
           raises == by_age /\ "Several times a week" \notin activity_by_age.columns
           social_by_gender == crosstab(filtered_df, "client_gender", social_col)
       IN  /\ tab3' =
                [ran |-> TRUE,
                 freq_counts |-> IF freq THEN Distribution(filtered_df, activity_freq_col, FALSE)
                                 ELSE Skipped,
                 activity_by_age |-> IF by_age THEN [shown |-> TRUE, table |-> activity_by_age]
                                     ELSE Skipped,
                 highest_percentage |-> IF by_age /\ ~raises
                                        THEN ColumnMax(activity_by_age, "Several times a week")
                                        ELSE Undefined,
                 most_active_age |-> IF by_age /\ ~raises
                                     THEN {r \in activity_by_age.index :
                                             activity_by_age.cell[r]["Several times a week"]
                                               = ColumnMax(activity_by_age, "Several times a week")}
                                     ELSE {},
                 social_counts |-> IF ~raises /\ social_col \in cols
                                   THEN Distribution(filtered_df, social_col, FALSE)
                                   ELSE Skipped,
                 social_by_gender |-> IF ~raises /\ social_col \in cols /\ "client_gender" \in cols
                                      THEN [shown |-> TRUE,
                                            table |-> [social_by_gender EXCEPT
                                                         !.index = @ \ {"unknown"},
                                                         !.cell = [r \in DOMAIN @ \ {"unknown"} |-> @[r]]]]
                                      ELSE Skipped,
                 friends_counts |-> IF ~raises /\ friends_col \in cols
                                    THEN Distribution(filtered_df, friends_col, FALSE)
                                    ELSE Skipped]
           /\ error' = IF raises THEN "KeyError: 'Several times a week'" ELSE error
           /\ pc' = IF raises THEN "error" ELSE "tab4"
    /\ UNCHANGED <<raw, df, selected, filtered_df, refiltered_df, tab1, tab2, tab4, h1, h2, h3>>

\* Tab 4: physical-support rating and, inside its branch, health control and the
\* general health self-assessment (health_mapping[x] for every observed category x).
Tab4Physical ==
    /\ pc = "tab4"
    /\ LET cols == filtered_df.columns
           physical == physical_rating_col \in cols
           control == physical /\ health_control_col \in cols
           general == physical /\ general_health_col \in cols
           general_health_counts == CountsTable(filtered_df, general_health_col)
           raises == general /\ \E k \in 1..Len(general_health_counts) :
                                    general_health_counts[k].Category \notin DOMAIN health_mapping
           total == SumOver([k \in 1..Len(general_health_counts) |-> general_health_counts[k].Count],
                            1..Len(general_health_counts))
       IN  /\ tab4' =
                [ran |-> TRUE,
                 avg_physical_rating |-> IF physical
                                         THEN MeanOver(filtered_df, physical_rating_col,
                                                       1..NRows(filtered_df))
                                         ELSE Undefined,
                 rating_counts |-> IF physical THEN Distribution(filtered_df, physical_rating_col, FALSE)
                                   ELSE Skipped,
                 health_control_counts |-> IF control
                                           THEN Distribution(filtered_df, health_control_col, FALSE)
                                           ELSE Skipped,
                 general_health_counts |->
                     IF general /\ ~raises
                     THEN [shown |-> TRUE,
                           rows |-> SortByKey([k \in 1..Len(general_health_counts) |->
                                      [Assessment |-> general_health_counts[k].Category,
                                       Count |-> general_health_counts[k].Count,
                                       key |-> health_mapping[general_health_counts[k].Category],
                                       Percentage |->
                                          IF total > 0
                                          THEN Round1Percent(general_health_counts[k].Count, total)
                                          ELSE Frac(0, 1)]])]
                     ELSE Skipped]
           /\ error' = IF raises THEN "KeyError: health_mapping" ELSE error
           /\ pc' = IF raises THEN "error" ELSE "hyp1"
    /\ UNCHANGED <<raw, df, selected, filtered_df, refiltered_df, tab1, tab2, tab3, h1, h2, h3>>

(***************************************************************************)
(* Tab 5: the three hypothesis evaluations.                                *)
(***************************************************************************)
\* A variant in which filter_dataframe hands back the loaded table itself when no
\* criterion selects rows, so that a column assigned to filtered_df lands in df.
LoadedSharesStorage(df_, criteria, written) ==
    IF \A d \in Range(Dimensions) \cap df_.columns : criteria[d] = {} THEN written ELSE df_

\* The loaded table after a step has assigned columns to filtered_df, the table
\* written: filter_dataframe started from df.copy(), so df is untouched.
Loaded(df_, criteria, written) == df_

physical_cols == <<"Physical rehabilitation", "Physical activities">>

psycho_cols == <<"Social events", "Psychological support (group)", "Psychological support (individual)">>

AddFrac(x, y) == Frac(x.num * y.den + y.num * x.den, x.den * y.den)

RECURSIVE SumFracs(_, _)
\* The sum of the fractions f[g] over the finite set G.
SumFracs(f, G) ==
    IF G = {} THEN Frac(0, 1)
    ELSE LET g == CHOOSE x \in G : TRUE IN AddFrac(f[g], SumFracs(f, G \ {g}))

\* A variant that weighs each bracket's mean by the bracket's number of clients.
MeanOfBracketsWeighted(pref, col, brackets) ==
    LET G == brackets \cap DOMAIN pref
        clients == SumOver([g \in G |-> pref[g].client_count], G)
        total == SumFracs([g \in G |-> Frac(pref[g][col].num * pref[g].client_count,
                                             pref[g][col].den)], G)
    IN  IF G = {} THEN Undefined ELSE Frac(total.num, total.den * clients)

\* pref.loc[pref['client_age_range'].isin(brackets), col].mean(): the mean of the
\* per-bracket means over the brackets that have a line; NaN when none has.
MeanOfBrackets(pref, col, brackets) ==
    LET G == brackets \cap DOMAIN pref
        total == SumFracs([g \in G |-> pref[g][col]], G)
    IN  IF G = {} THEN Undefined ELSE Frac(total.num, total.den * Cardinality(G))

\* A variant that exchanges the two partial verdicts.
H1ConclusionExchanged(younger_physical, older_physical, younger_psycho, older_psycho) ==
    IF FracLess(older_physical, younger_physical) /\ FracLess(younger_psycho, older_psycho)
    THEN "supported"
    ELSE IF FracLess(older_physical, younger_physical) THEN "partially supported (psychosocial)"
    ELSE IF FracLess(younger_psycho, older_psycho) THEN "partially supported (physical)"
    ELSE "not supported"

\* The four-way rule of hypothesis 1.
H1Conclusion(younger_physical, older_physical, younger_psycho, older_psycho) ==
    IF FracLess(older_physical, younger_physical) /\ FracLess(younger_psycho, older_psycho)
    THEN "supported"
    ELSE IF FracLess(older_physical, younger_physical) THEN "partially supported (physical)"
    ELSE IF FracLess(younger_psycho, older_psycho) THEN "partially supported (psychosocial)"
    ELSE "not supported"

\* A variant that also removes the rows of bracket 'unknown' from filtered_df itself.
H1ColumnsWithoutUnknown(t, available_physical, available_psycho) ==
    LET t1 == WithColumn(t, "physical_activities_sum",
                         LAMBDA cell : SumCells(cell, available_physical))
        t2 == WithColumn(t1, "psychosocial_activities_sum",
                         LAMBDA cell : SumCells(cell, available_psycho))
        t3 == WithColumn(t2, "physical_percent",
                         LAMBDA cell : Frac(cell["physical_activities_sum"], Len(available_physical)))
        t4 == WithColumn(t3, "psychosocial_percent",
                         LAMBDA cell : Frac(cell["psychosocial_activities_sum"], Len(available_psycho)))
    IN  SelectRows(t4, LAMBDA cell : cell["client_age_range"] # "unknown")

\* filtered_df with the four columns hypothesis 1 adds to it.
H1Columns(t, available_physical, available_psycho) ==
    LET t1 == WithColumn(t, "physical_activities_sum",
                         LAMBDA cell : SumCells(cell, available_physical))
        t2 == WithColumn(t1, "psychosocial_activities_sum",
                         LAMBDA cell : SumCells(cell, available_psycho))
        t3 == WithColumn(t2, "physical_percent",
                         LAMBDA cell : Frac(cell["physical_activities_sum"], Len(available_physical)))
        t4 == WithColumn(t3, "psychosocial_percent",
                         LAMBDA cell : Frac(cell["psychosocial_activities_sum"], Len(available_psycho)))
    IN  t4

\* The mean, times 100, of the fraction column col over the rows in S (S not empty;
\* every cell of the column has the same denominator).
MeanPercent(t, col, S) ==
    Frac(100 * SumOver([i \in 1..NRows(t) |-> t.rows[i].cell[col].num], S),
         t.rows[CHOOSE i \in S : TRUE].cell[col].den * Cardinality(S))

\* groupby('client_age_range').agg(mean, mean, count of 'ID') of the rows whose
\* bracket is not 'unknown' (a missing bracket forms no group), the means times 100.
AgeActivityPref(t) ==
    [g \in Options(t, "client_age_range") \ {"unknown"} |->
        LET S == RowsWhere(t, LAMBDA cell : cell["client_age_range"] = g)
        IN  [physical_percent |-> MeanPercent(t, "physical_percent", S),
             psychosocial_percent |-> MeanPercent(t, "psychosocial_percent", S),
             client_count |-> CountOver(t, "ID", S)]]

Hypothesis1 ==
    /\ pc = "hyp1"
    /\ LET cols == filtered_df.columns
           available_physical == SelectSeq(physical_cols, LAMBDA col : col \in cols)
           available_psycho == SelectSeq(psycho_cols, LAMBDA col : col \in cols)
           evaluated == /\ "client_age_range" \in cols
                        /\ available_physical # << >>
                        /\ available_psycho # << >>
           raises == evaluated /\ "ID" \notin cols
           with_columns == H1Columns(filtered_df, available_physical, available_psycho)
           age_activity_pref == AgeActivityPref(with_columns)
           younger_physical == MeanOfBrackets(age_activity_pref, "physical_percent", {"18-54", "55-69"})
           older_physical == MeanOfBrackets(age_activity_pref, "physical_percent", {"70-85", "85+"})
           younger_psycho == MeanOfBrackets(age_activity_pref, "psychosocial_percent", {"18-54", "55-69"})
           older_psycho == MeanOfBrackets(age_activity_pref, "psychosocial_percent", {"70-85", "85+"})
       IN  /\ filtered_df' = IF evaluated THEN with_columns ELSE filtered_df
           /\ h1' = IF evaluated /\ ~raises
                    THEN [ran |-> TRUE, evaluated |-> TRUE,
                          age_activity_pref |-> age_activity_pref,
                          younger_physical |-> younger_physical,
                          older_physical |-> older_physical,
                          younger_psycho |-> younger_psycho,
                          older_psycho |-> older_psycho,
                          conclusion |-> H1Conclusion(younger_physical, older_physical,
                                                      younger_psycho, older_psycho)]
                    ELSE [ran |-> TRUE, evaluated |-> FALSE]
           /\ error' = IF raises THEN "KeyError: 'ID'" ELSE error
           /\ pc' = IF raises THEN "error" ELSE "hyp2"
    /\ df' = Loaded(df, selected, filtered_df')
    /\ UNCHANGED <<raw, selected, refiltered_df, tab1, tab2, tab3, tab4, h2, h3>>

\* The labels that contain the text '1-3' (Series.str.contains('1-3')), among the
\* program-duration labels of the model: the known buckets and one unmapped spelling.
ContainsOneToThree == {"1-3 months", "1-3 Months"}

\* str.contains('1-3', na=False) on one cell: False for a missing cell.
str_contains(v) == v # NaN /\ v \in ContainsOneToThree

\* The 'mean' and 'count' of one line of groupby('is_new_client')[rating_col]
\* .agg(['mean', 'count']).round(2), or the substitute Series when the line is absent.
H2Partition(t, flag) ==
    LET S == {i \in 1..NRows(t) : t.rows[i].cell["is_new_client"] = flag}
    IN  IF S = {} THEN [mean |-> Frac(0, 1), count |-> 0]
        ELSE [mean |-> Round2(MeanOver(t, rating_col, S)), count |-> CountOver(t, rating_col, S)]

\* The two-way rule of hypothesis 2, on the rounded means.
H2Conclusion(new_clients, existing_clients) ==
    IF FracLess(new_clients.mean, existing_clients.mean) THEN "supported" ELSE "not supported"

Hypothesis2 ==
    /\ pc = "hyp2"
    /\ LET cols == filtered_df.columns
           evaluated == duration_column \in cols /\ rating_col \in cols
           \* .str on a column that holds no text (every cell of the loaded column missing)
           raises == evaluated /\ NRows(df) > 0 /\ Options(df, duration_column) = {}
           with_flag == WithColumn(filtered_df, "is_new_client",
                                   LAMBDA cell : str_contains(cell[duration_column]))
           new_clients == H2Partition(with_flag, TRUE)
           existing_clients == H2Partition(with_flag, FALSE)
       IN  /\ filtered_df' = IF evaluated /\ ~raises THEN with_flag ELSE filtered_df
           /\ h2' = IF evaluated /\ ~raises
                    THEN [ran |-> TRUE, evaluated |-> TRUE,
                          new_clients |-> new_clients,
                          existing_clients |-> existing_clients,
                          conclusion |-> H2Conclusion(new_clients, existing_clients)]
                    ELSE [ran |-> TRUE, evaluated |-> FALSE]
           /\ error' = IF raises THEN "AttributeError: .str" ELSE error
           /\ pc' = IF raises THEN "error" ELSE "hyp3"
    /\ df' = Loaded(df, selected, filtered_df')
    /\ UNCHANGED <<raw, selected, refiltered_df, tab1, tab2, tab3, tab4, h1, h3>>

\* health_score_mapping: 5 is best, 1 is worst; no entry for any other label.
health_score_mapping(v) ==
    CASE v \in {"1. Otlichnoe", "1. Excellent"} -> 5
      [] v \in {"2. Ochen horoshee", "2. Very good"} -> 4
      [] v \in {"3. Horoshee", "3. Good"} -> 3
      [] v \in {"4. Udovletvoritelnoe", "4. Satisfactory"} -> 2
      [] v \in {"5. Plohoe", "5. Bad"} -> 1
      [] OTHER -> NaNNum

\* duration_order: the bucket's ordinal position; no entry for any other label.
duration_order(v) ==
    CASE v = "1-3 months" -> 1
      [] v = "3-6 months" -> 2
      [] v = "6-12 months" -> 3
      [] v = "1-2 years" -> 4
      [] v \in {"More than 2 years", "more than 2 years"} -> 5
      [] OTHER -> NaNNum

\* The program-duration labels of the model in the order groupby() lists its keys
\* (sorted as text).
DurationLabels ==
    <<"1-2 years", "1-3 Months", "1-3 months", "3-6 months", "6-12 months",
      "More than 2 years", "more than 2 years">>

\* A variant whose first test also takes an undefined coefficient.
H3ConclusionUndefinedFirst(correlation) ==
    IF ~correlation.defined \/ AbsLessTenth(correlation)
    THEN "not supported (no significant correlation)"
    ELSE IF GreaterTenth(correlation) THEN "supported (positive correlation)"
    ELSE "not supported (negative correlation)"

\* The three-way rule of hypothesis 3.
H3Conclusion(correlation) ==
    IF AbsLessTenth(correlation) THEN "not supported (no significant correlation)"
    ELSE IF GreaterTenth(correlation) THEN "supported (positive correlation)"
    ELSE "not supported (negative correlation)"

Hypothesis3 ==
    /\ pc = "hyp3"
    /\ LET cols == filtered_df.columns
           evaluated == duration_column \in cols /\ general_health_col \in cols
           t1 == WithColumn(filtered_df, "health_score",
                            LAMBDA cell : health_score_mapping(cell[general_health_col]))
           groups == SelectSeq(DurationLabels, LAMBDA g : g \in Options(t1, duration_column))
           health_by_duration ==
               SortByKey([k \in 1..Len(groups) |->
                  LET S == RowsWhere(t1, LAMBDA cell : cell[duration_column] = groups[k])
                  IN  [duration |-> groups[k],
                       average |-> Round2(MeanOver(t1, "health_score", S)),
                       count |-> CountOver(t1, "health_score", S),
                       key |-> IF duration_order(groups[k]) = NaNNum THEN 6
                               ELSE duration_order(groups[k])]])
           t2 == WithColumn(t1, "duration_score",
                            LAMBDA cell : IF cell[duration_column] = NaN THEN NaNNum
                                          ELSE duration_order(cell[duration_column]))
           correlation == Pearson(t2, "duration_score", "health_score")
       IN  /\ filtered_df' = IF evaluated THEN t2 ELSE filtered_df
           /\ h3' = IF evaluated
                    THEN [ran |-> TRUE, evaluated |-> TRUE,
                          health_by_duration |-> health_by_duration,
                          correlation |-> correlation,
                          conclusion |-> H3Conclusion(correlation)]
                    ELSE [ran |-> TRUE, evaluated |-> FALSE]
           /\ pc' = "done"
    /\ df' = Loaded(df, selected, filtered_df')
    /\ UNCHANGED <<raw, selected, refiltered_df, error, tab1, tab2, tab3, tab4, h1, h2>>

Next ==
    \/ LoadData
    \/ SelectFilters
    \/ ApplyFilter
    \/ Tab1Demographics
    \/ Tab2ProgramImpact
    \/ Tab3Psychological
    \/ Tab4Physical
    \/ Hypothesis1
    \/ Hypothesis2
    \/ Hypothesis3

(***************************************************************************)
(* The whole dashboard on survey files of the full schema.                 *)
(***************************************************************************)
\* A client with every answer given.
ClientA ==
    [c \in AllColumns |->
        CASE c = "country" -> "Ukraine"
          [] c = "region" -> "Kyiv"
          [] c = "Partner" -> "Hesed"
          [] c = "client_age_range" -> "55-69"
          [] c = "client_gender" -> "Female"
          [] c = "client_new" -> "Yes"
          [] c = duration_column -> "1-3 months"
          [] c = "client_victim_of_nazism_status" -> "Not a victim"
          [] c = "ID" -> "1"
          [] c = rating_col -> "4"
          [] c = physical_rating_col -> "3"
          [] c = activity_freq_col -> "Several times a week"
          [] c = general_health_col -> "3. Good"
          [] c \in {social_col, friends_col, health_control_col} -> "Yes"
          [] c \in {"Diabetes", "Physical activities", "Medical support"} -> "1"
          [] OTHER -> "0"]

\* An older client of another country with other answers.
ClientB ==
    [c \in AllColumns |->
        CASE c = "country" -> "Moldova"
          [] c = "region" -> "Odesa"
          [] c = "Partner" -> "Caritas"
          [] c = "client_age_range" -> "70-85"
          [] c = "client_gender" -> "Male"
          [] c = "client_new" -> "No"
          [] c = duration_column -> "1-2 years"
          [] c = "client_victim_of_nazism_status" -> "Not a victim"
          [] c = "ID" -> "2"
          [] c = rating_col -> "5"
          [] c = physical_rating_col -> "4"
          [] c = activity_freq_col -> "Several times a week"
          [] c = general_health_col -> "4. Satisfactory"
          [] c \in {social_col, friends_col, health_control_col} -> "No"
          [] c \in {"Dementia", "Social events", "Home care"} -> "1"
          [] OTHER -> "0"]

\* A client who left the country, the programme duration and the rating blank.
ClientC ==
    [ClientA EXCEPT !["country"] = "", ![duration_column] = "", ![rating_col] = "",
                    !["ID"] = "3", ![activity_freq_col] = "Rarely"]

\* The columns whose presence decides whether a section is drawn.
OptionalColumns ==
    {"ID", "country", "client_age_range", duration_column, rating_col,
     activity_freq_col, general_health_col}

Project(row, cols) == [c \in cols |-> row[c]]

Init ==
    \E rows \in SeqsUpTo({ClientA, ClientB, ClientC}, MaxRows),
       absent \in SubsetsUpTo(OptionalColumns, MaxAbsent) :
         Start([columns |-> AllColumns \ absent,
                rows |-> [i \in 1..Len(rows) |-> Project(rows[i], AllColumns \ absent)]])

Spec == Init /\ [][Next]_vars

(***************************************************************************)
(* The dashboard on files that hold the columns of one hypothesis only.    *)
(***************************************************************************)
\* The files over the columns of the rows in kinds, of at most MaxHypRows rows.
Files(cols, kinds) == {[columns |-> cols, rows |-> rows] : rows \in SeqsUpTo(kinds, MaxHypRows)}

\* n copies of the row x.
Repeat(x, n) == [i \in 1..n |-> x]

H1Schema == {"client_age_range", "ID", "Physical activities", "Social events"}

H1Row(age, physical, social) ==
    [c \in H1Schema |->
        CASE c = "client_age_range" -> age
          [] c = "ID" -> "1"
          [] c = "Physical activities" -> physical
          [] OTHER -> social]

InitH1 ==
    \E csv \in Files(H1Schema, {H1Row(age, physical, social) :
                                   age \in {"18-54", "55-69", "70-85", "unknown"},
                                   physical \in {"0", "1"}, social \in {"0", "1"}}) :
        Start(csv)

SpecH1 == InitH1 /\ [][Next]_vars

(***************************************************************************)
(* The dashboard on files with both physical indicator columns, a missing  *)
(* indicator answer, and missing and 'unknown' age brackets.               *)
(***************************************************************************)
PreferenceSchema ==
    {"client_age_range", "ID", "Physical rehabilitation", "Physical activities", "Social events"}

\* A client of the given bracket ('' is no bracket).  An active client left the
\* rehabilitation answer empty, takes part in physical activities and in no
\* social event; any other client takes part in social events only.
Participant(age, active) ==
    [c \in PreferenceSchema |->
        CASE c = "client_age_range" -> age
          [] c = "ID" -> "1"
          [] c = "Physical rehabilitation" -> IF active THEN "" ELSE "0"
          [] c = "Physical activities" -> IF active THEN "1" ELSE "0"
          [] OTHER -> IF active THEN "0" ELSE "1"]

\* Two clients of bracket 18-54 and one of bracket 55-69.
TwoAndOne(first, second, third) ==
    <<Participant("18-54", first), Participant("18-54", second), Participant("55-69", third)>>

InitPreferences ==
    \E rows \in SeqsUpTo({Participant(age, active) :
                             age \in {"18-54", "55-69", "85+", "unknown", ""},
                             active \in BOOLEAN},
                         MaxPreferenceRows)
                \cup {TwoAndOne(first, second, third) :
                         first \in BOOLEAN, second \in BOOLEAN, third \in BOOLEAN} :
        Start([columns |-> PreferenceSchema, rows |-> rows])

SpecPreferences == InitPreferences /\ [][Next]_vars

H2Schema == {duration_column, rating_col}

H2Row(duration, rating) == [c \in H2Schema |-> IF c = duration_column THEN duration ELSE rating]

\* Thirteen clients of the first three months whose ratings average 47/13 and
\* eight clients of one to two years whose ratings average 29/8.
CloseMeans ==
    [columns |-> H2Schema,
     rows |-> Repeat(H2Row("1-3 months", "3"), 5) \o Repeat(H2Row("1-3 months", "4"), 8)
                \o Repeat(H2Row("1-2 years", "3"), 3) \o Repeat(H2Row("1-2 years", "4"), 5)]

\* Durations ['1-3 months', '1-3 months', '1-2 years'] with ratings [2, 4, 5].
H2Example ==
    [columns |-> H2Schema,
     rows |-> <<H2Row("1-3 months", "2"), H2Row("1-3 months", "4"), H2Row("1-2 years", "5")>>]

InitH2 ==
    \E csv \in Files(H2Schema, {H2Row(duration, rating) :
                                   duration \in {"", "1-3 months", "1-2 years"},
                                   rating \in {"", "2", "4", "5"}})
                 \cup {CloseMeans, H2Example} :
        Start(csv)

SpecH2 == InitH2 /\ [][Next]_vars

H3Schema == {duration_column, general_health_col}

H3Row(duration, health) == [c \in H3Schema |-> IF c = duration_column THEN duration ELSE health]

\* Duration ordinals [1, 2, 3] with health scores [5, 3, 1].
H3Example ==
    [columns |-> H3Schema,
     rows |-> <<H3Row("1-3 months", "1. Excellent"), H3Row("3-6 months", "3. Good"),
                H3Row("6-12 months", "5. Bad")>>]

\* Ordinals [1, 1, 1, 1, 1, 4] with scores [1, 1, 2, 4, 5, 3]: the covariance is 1,
\* the variances are 7.5 and 40/3, so the coefficient is 1 / sqrt(100) = 0.1.
TenthPositive ==
    [columns |-> H3Schema,
     rows |-> <<H3Row("1-3 months", "5. Bad"), H3Row("1-3 months", "5. Bad"),
                H3Row("1-3 months", "4. Satisfactory"), H3Row("1-3 months", "2. Very good"),
                H3Row("1-3 months", "1. Excellent"), H3Row("1-2 years", "3. Good")>>]

\* The same clients with the health scale reversed: the coefficient is -0.1.
TenthNegative ==
    [columns |-> H3Schema,
     rows |-> <<H3Row("1-3 months", "1. Excellent"), H3Row("1-3 months", "1. Excellent"),
                H3Row("1-3 months", "2. Very good"), H3Row("1-3 months", "4. Satisfactory"),
                H3Row("1-3 months", "5. Bad"), H3Row("1-2 years", "3. Good")>>]

\* Ordinals [1, 2, 3] with scores [3, 5, 3]: the coefficient is 0.
Uncorrelated ==
    [columns |-> H3Schema,
     rows |-> <<H3Row("1-3 months", "3. Good"), H3Row("3-6 months", "1. Excellent"),
                H3Row("6-12 months", "3. Good")>>]

InitH3 ==
    \E csv \in Files(H3Schema, {H3Row(duration, health) :
                                   duration \in {"", "1-3 months", "1-2 years", "More than 2 years"},
                                   health \in {"", "1. Excellent", "3. Good", "5. Bad"}})
                 \cup {H3Example, TenthPositive, TenthNegative, Uncorrelated} :
        Start(csv)

SpecH3 == InitH3 /\ [][Next]_vars

(***************************************************************************)
(* The dashboard on files whose categories may lie outside the mappings.   *)
(***************************************************************************)
MappingSchema == {"client_age_range", duration_column, general_health_col, physical_rating_col}

MappingRow(age, duration, health) ==
    [c \in MappingSchema |->
        CASE c = "client_age_range" -> age
          [] c = duration_column -> duration
          [] c = general_health_col -> health
          [] OTHER -> "3"]

\* Brackets observed in the order ['70-85', '18-54', 'unknown', '55-69'].
AgeExample ==
    [columns |-> MappingSchema,
     rows |-> <<MappingRow("70-85", "1-3 months", "3. Good"),
                MappingRow("18-54", "1-3 months", "3. Good"),
                MappingRow("unknown", "1-3 months", "3. Good"),
                MappingRow("55-69", "1-3 months", "3. Good")>>]

\* The older bracket observed first and twice, the younger one once.
AgeCounts ==
    [columns |-> MappingSchema,
     rows |-> <<MappingRow("70-85", "1-3 months", "3. Good"),
                MappingRow("70-85", "1-3 months", "3. Good"),
                MappingRow("18-54", "1-3 months", "3. Good")>>]

\* '90+', '1-3 Months' and 'Unknown' have no entry in the mappings.
InitMappings ==
    \E csv \in Files(MappingSchema, {MappingRow(age, duration, health) :
                                        age \in {"18-54", "70-85", "90+"},
                                        duration \in {"1-3 months", "1-3 Months"},
                                        health \in {"3. Good", "Unknown"}})
                 \cup {AgeExample, AgeCounts} :
        Start(csv)

SpecMappings == InitMappings /\ [][Next]_vars

(***************************************************************************)
(* The dashboard on files that hold the indicator columns only.            *)
(***************************************************************************)
IndicatorSchema == Range(binary_columns)

\* A respondent whose 'Diabetes' and 'Home care' cells hold the given texts
\* and whose other indicator cells hold '0'.
IndicatorRow(diabetes, home_care) ==
    [c \in IndicatorSchema |->
        CASE c = "Diabetes" -> diabetes
          [] c = "Home care" -> home_care
          [] OTHER -> "0"]

\* One column of each group that a file may lack.
AbsentIndicators == {"Diabetes", "Home care", "Medical support"}

ThreeActivities == {"Social events", "Home care", "Physical activities"}

ActivityRow(social, home_care, physical) ==
    [c \in ThreeActivities |->
        CASE c = "Social events" -> social
          [] c = "Home care" -> home_care
          [] OTHER -> physical]

\* Four respondents whose three activity columns sum to 3, 1 and 2.
SummaryExample ==
    [columns |-> ThreeActivities,
     rows |-> <<ActivityRow("1", "0", "1"), ActivityRow("1", "1", "0"),
                ActivityRow("1", "0", "1"), ActivityRow("0", "0", "0")>>]

InitIndicators ==
    \/ \E rows \in SeqsUpTo({IndicatorRow(diabetes, home_care) :
                                diabetes \in {"", "1", "2", "yes"}, home_care \in {"0", "1"}},
                            MaxRows),
          absent \in SubsetsUpTo(AbsentIndicators, MaxAbsent) :
            Start([columns |-> IndicatorSchema \ absent,
                   rows |-> [i \in 1..Len(rows) |-> Project(rows[i], IndicatorSchema \ absent)]])
    \/ Start(SummaryExample)

SpecIndicators == InitIndicators /\ [][Next]_vars

(***************************************************************************)
(* The dashboard on files that hold chronic-condition columns only, with   *)
(* cells that are empty, '0' or '1'.                                       *)
(***************************************************************************)
ComorbiditySchema == {"chronic cardiovascular", "Diabetes"}

ComorbidityRow(cardiovascular, diabetes) ==
    [c \in ComorbiditySchema |-> IF c = "Diabetes" THEN diabetes ELSE cardiovascular]

ThreeConditions == {"chronic cardiovascular", "Diabetes", "Dementia"}

ConditionRow(cardiovascular, diabetes, dementia) ==
    [c \in ThreeConditions |->
        CASE c = "chronic cardiovascular" -> cardiovascular
          [] c = "Diabetes" -> diabetes
          [] OTHER -> dementia]

\* Five respondents with three conditions, one answer missing.
ComorbidityExample ==
    [columns |-> ThreeConditions,
     rows |-> <<ConditionRow("1", "1", "0"), ConditionRow("1", "0", "0"),
                ConditionRow("0", "1", "1"), ConditionRow("0", "", "1"),
                ConditionRow("1", "1", "1")>>]

InitComorbidity ==
    \/ \E rows \in SeqsUpTo({ComorbidityRow(cardiovascular, diabetes) :
                                cardiovascular \in {"", "0", "1"}, diabetes \in {"", "0", "1"}},
                            MaxCorrRows) :
            Start([columns |-> ComorbiditySchema, rows |-> rows])
    \/ Start(ComorbidityExample)

SpecComorbidity == InitComorbidity /\ [][Next]_vars

(***************************************************************************)
(* The dashboard on files that hold the columns of the distributions and   *)
(* cross-tabulations of tabs 1 and 3.                                      *)
(***************************************************************************)
DistributionSchema == {"client_gender", "client_age_range", social_col, activity_freq_col}

DistributionRow(gender, age, social, frequency) ==
    [c \in DistributionSchema |->
        CASE c = "client_gender" -> gender
          [] c = "client_age_range" -> age
          [] c = social_col -> social
          [] OTHER -> frequency]

\* A respondent of the given gender and social-impact answer ('' is no answer);
\* women are of the bracket 55-69 and men of 70-85, and those who report an
\* impact attend several times a week.
Respondent(gender, social) ==
    DistributionRow(gender,
                    IF gender = "Female" THEN "55-69" ELSE "70-85",
                    social,
                    IF social = "Yes" THEN "Several times a week"
                    ELSE IF social = "No" THEN "Rarely" ELSE "")

\* Three respondents, two of whom report an impact.
Thirds ==
    [columns |-> DistributionSchema,
     rows |-> <<Respondent("Female", "Yes"), Respondent("Female", "Yes"), Respondent("Male", "No")>>]

\* Twelve respondents in nine brackets: four in one bracket, one in each other.
NineBrackets ==
    [columns |-> DistributionSchema,
     rows |-> Repeat(DistributionRow("Female", "55-69", "Yes", "Several times a week"), 4)
                \o [i \in 1..8 |->
                      DistributionRow("Female",
                                      <<"18-54", "70-85", "85+", "unknown", "18-30", "31-54",
                                        "86-90", "90+">>[i],
                                      "Yes", "Several times a week")]]

InitDistributions ==
    \E csv \in Files(DistributionSchema,
                     {Respondent(gender, social) :
                         gender \in {"Female", "Male"}, social \in {"Yes", "No", ""}})
                 \cup {Thirds, NineBrackets} :
        Start(csv)

SpecDistributions == InitDistributions /\ [][Next]_vars

(***************************************************************************)
(* filter_dataframe called on its own: the table and the criteria mapping  *)
(* are any of FilterInputs, and the function is applied once and then      *)
(* again to its own result.                                                *)
(***************************************************************************)
\* Two representative values of each dimension.
DimValues(d) ==
    CASE d = "country" -> <<"Ukraine", "Moldova">>
      [] d = "region" -> <<"Kyiv", "Odesa">>
      [] d = "Partner" -> <<"Hesed", "Caritas">>
      [] d = "client_age_range" -> <<"55-69", "70-85">>
      [] d = "client_gender" -> <<"Female", "Male">>
      [] d = "client_new" -> <<"Yes", "No">>
      [] d = duration_column -> <<"1-3 months", "1-2 years">>
      [] OTHER -> <<"Victim", "Not a victim">>

\* A loaded table over the columns cols whose rows differ in dimension d only:
\* vs[i] is row i's value of d, every other dimension holds its first value.
FocusTable(cols, d, vs) ==
    [columns |-> cols,
     rows |-> [i \in 1..Len(vs) |->
                 [index |-> i - 1,
                  cell |-> [c \in cols |-> IF c = d THEN vs[i] ELSE DimValues(c)[1]]]]]

\* A criteria mapping that restricts dimension d to ds and dimension e to es.
FocusCriteria(d, ds, e, es) ==
    [x \in Range(Dimensions) |-> IF x = d THEN ds ELSE IF x = e THEN es ELSE {}]

InitFilter ==
    /\ \E d \in Range(Dimensions) : \E e \in Range(Dimensions) \ {d} :
         \E vs \in SeqsUpTo(Range(DimValues(d)) \cup {NaN}, MaxFilterRows),
            ds \in SUBSET Range(DimValues(d)),
            es \in {{}, {DimValues(e)[1]}, {DimValues(e)[2]}},
            absent \in {{}, {d}, {e}} :
              /\ df = FocusTable(Range(Dimensions) \ absent, d, vs)
              /\ selected = FocusCriteria(d, ds, e, es)
    /\ pc = "call"
    /\ raw = EmptyTable
    /\ filtered_df = EmptyTable
    /\ refiltered_df = EmptyTable
    /\ error = "none"
    /\ tab1 = NotRun /\ tab2 = NotRun /\ tab3 = NotRun /\ tab4 = NotRun
    /\ h1 = NotRun /\ h2 = NotRun /\ h3 = NotRun

CallFilter ==
    /\ pc = "call"
    /\ filtered_df' = Filter(df, selected)
    /\ pc' = "called"
    /\ UNCHANGED <<raw, df, selected, refiltered_df, error, tab1, tab2, tab3, tab4, h1, h2, h3>>

CallFilterAgain ==
    /\ pc = "called"
    /\ refiltered_df' = Filter(filtered_df, selected)
    /\ pc' = "recalled"
    /\ UNCHANGED <<raw, df, selected, filtered_df, error, tab1, tab2, tab3, tab4, h1, h2, h3>>

NextFilter == CallFilter \/ CallFilterAgain

SpecFilter == InitFilter /\ [][NextFilter]_vars

\* A row passes dimension d when d's list is empty or holds the row's value of d.
PassesDimension(cell, c, d) == c[d] = {} \/ cell[d] \in c[d]

\* A row passes when it passes every dimension whose column the table has.
Passes(t, cell, c) == \A d \in Range(Dimensions) \cap t.columns : PassesDimension(cell, c, d)

\* s is t with some rows left out: same columns, rows in t's order, index and cells kept.
RECURSIVE IsSubsequence(_, _)
IsSubsequence(s, t) ==
    IF s = << >> THEN TRUE
    ELSE IF t = << >> THEN FALSE
    ELSE IF Head(s) = Head(t) THEN IsSubsequence(Tail(s), Tail(t))
    ELSE IsSubsequence(s, Tail(t))

\* C1: filter_dataframe returns exactly the rows that pass every dimension whose
\* column is present (empty list or member of the list, AND over dimensions); an
\* absent column's list is ignored; an empty list rejects no row.
C1_FilterSemantics ==
    pc \in {"called", "recalled"} =>
        /\ filtered_df.columns = df.columns
        /\ filtered_df.rows = SelectSeq(df.rows, LAMBDA r : Passes(df, r.cell, selected))

\* C1 witness: a call with a non-empty list on an absent column and a restricting
\* list on a present one, that dropped a row and kept a row, on a table with a row
\* whose value is missing.
C1_Witness ==
    /\ pc = "called"
    /\ \E d \in Range(Dimensions) \ df.columns : selected[d] # {}
    /\ \E d \in df.columns : selected[d] # {}
    /\ \E d \in df.columns : \E i \in 1..NRows(df) : df.rows[i].cell[d] = NaN
    /\ 0 < NRows(filtered_df) /\ NRows(filtered_df) < NRows(df)

\* C2: every row of filter_dataframe(T, c) is a row of T with its index and cell
\* values unchanged; the result holds no row that T does not hold.
C2_FilterSubset ==
    pc \in {"called", "recalled"} =>
        /\ filtered_df.columns = df.columns
        /\ IsSubsequence(filtered_df.rows, df.rows)

\* C2 witness: a call that returned a proper, non-empty part of the table.
C2_Witness ==
    /\ pc = "called"
    /\ NRows(filtered_df) > 0
    /\ NRows(filtered_df) < NRows(df)
    /\ filtered_df.rows[1].index > 0

\* C4: filter_dataframe(filter_dataframe(T, c), c) has exactly the rows of
\* filter_dataframe(T, c).
C4_FilterIdempotent ==
    pc = "recalled" => refiltered_df = filtered_df

\* C4 witness: the second call ran on a result from which the first call had
\* dropped a row and kept a row.
C4_Witness ==
    /\ pc = "recalled"
    /\ NRows(filtered_df) > 0
    /\ NRows(filtered_df) < NRows(df)
    /\ refiltered_df = filtered_df

(***************************************************************************)
(* Properties of one run of the dashboard.                                 *)
(***************************************************************************)
Filtered == pc \notin {"load", "sidebar", "filter", "call", "called", "recalled"}

\* C3: when every dimension's criteria list is the option list the sidebar
\* preselects (nothing deselected), the filtered table holds every row of the
\* loaded table, rows with a missing value in a dimension included.
C3_DefaultSelectionKeepsAll ==
    (Filtered /\ selected = Sidebar(df, {})) => IndexOf(filtered_df) = IndexOf(df)

\* The hypothesis whose record is h was evaluated, not skipped.
Evaluated(h) == h.ran /\ h.evaluated

\* C5: whenever the coefficient is a number, the verdict is "no significant
\* correlation" exactly when |r| < 0.1, "positive correlation" exactly when
\* r > 0.1, and "negative correlation" exactly when r <= -0.1.
C5_H3Verdict ==
    (Evaluated(h3) /\ h3.correlation.defined) =>
        /\ h3.conclusion = "not supported (no significant correlation)"
              <=> AbsLessTenth(h3.correlation)
        /\ h3.conclusion = "supported (positive correlation)"
              <=> GreaterTenth(h3.correlation)
        /\ h3.conclusion = "not supported (negative correlation)"
              <=> AtMostMinusTenth(h3.correlation)

\* The rows of the filtered table hypothesis 2 puts in the partition flag, and
\* the exact mean of their ratings.
PartitionRows(flag) ==
    {i \in 1..NRows(filtered_df) : filtered_df.rows[i].cell["is_new_client"] = flag}

ExactMean(flag) == MeanOver(filtered_df, rating_col, PartitionRows(flag))

\* C6: when both partitions hold a rating, the verdict is "supported" exactly
\* when the exact mean rating of the new partition is strictly less than the
\* exact mean rating of the existing partition.
C6_H2ExactMeans ==
    (Evaluated(h2) /\ ~IsUndefined(ExactMean(TRUE)) /\ ~IsUndefined(ExactMean(FALSE))) =>
        (h2.conclusion = "supported" <=> FracLess(ExactMean(TRUE), ExactMean(FALSE)))

\* The rows of the filtered table whose programme duration is one of values.
DurationRows(values) ==
    {i \in 1..NRows(filtered_df) : filtered_df.rows[i].cell[duration_column] \in values}

\* C7: the new partition counts the ratings of the rows of the 1-3 month bucket,
\* the existing partition counts the ratings of the rows of the other known
\* buckets, and a row whose duration is missing is counted in neither.
C7_H2Partition ==
    Evaluated(h2) =>
        /\ h2.new_clients.count
             = CountOver(filtered_df, rating_col, DurationRows({"1-3 months"}))
        /\ h2.existing_clients.count
             = CountOver(filtered_df, rating_col,
                         DurationRows({"3-6 months", "6-12 months", "1-2 years",
                                       "More than 2 years", "more than 2 years"}))

\* C8: whenever hypothesis 1 is evaluated, the verdict is "supported" iff both
\* comparisons hold, "partially supported (physical)" iff only the physical one
\* holds, "partially supported (psychosocial)" iff only the psychosocial one
\* holds, and "not supported" iff neither holds.
C8_H1Verdict ==
    Evaluated(h1) =>
        LET physical == FracLess(h1.older_physical, h1.younger_physical)
            psycho == FracLess(h1.younger_psycho, h1.older_psycho)
        IN  /\ h1.conclusion \in {"supported", "partially supported (physical)",
                                  "partially supported (psychosocial)", "not supported"}
            /\ h1.conclusion = "supported" <=> physical /\ psycho
            /\ h1.conclusion = "partially supported (physical)" <=> physical /\ ~psycho
            /\ h1.conclusion = "partially supported (psychosocial)" <=> psycho /\ ~physical
            /\ h1.conclusion = "not supported" <=> ~physical /\ ~psycho

C8_Witness ==
    /\ Evaluated(h1)
    /\ h1.conclusion = "partially supported (psychosocial)"
    /\ ~IsUndefined(h1.younger_physical) /\ ~IsUndefined(h1.older_physical)

\* C9: when the file holds every column and the filtered table has no rows, the
\* run raises no error.
C9_ZeroRowsNeverRaise ==
    (Filtered /\ raw.columns = AllColumns /\ NRows(filtered_df) = 0) => error = "none"

\* C10: a run on a file without the 'ID' column does not end in the error of
\* looking that column up.
C10_MissingColumnsNeverRaise ==
    "ID" \notin raw.columns => error # "KeyError: 'ID'"

\* C11: a category that has no entry in a mapping (age order, health
\* self-assessment mapping, health-score mapping, duration order) makes no
\* lookup fail: no run ends in the error of a mapping lookup.
C11_UnmappedNeverRaises ==
    error # "KeyError: health_mapping"

\* C12: after load_data every cell of every indicator column (chronic,
\* activity and service groups) is 0, 1 or missing.
C12_IndicatorCellsBinary ==
    pc # "load" =>
        \A i \in 1..NRows(df) : \A c \in Range(binary_columns) \cap df.columns :
            df.rows[i].cell[c] \in {0, 1, NaNNum}

\* The three indicator groups with the names of their composite columns.
Composites ==
    {<<"chronic_count", chronic_columns>>, <<"activity_count", activity_columns>>,
     <<"service_count", service_columns>>}

\* C13: after load_data a group's composite column exists if and only if the
\* file holds every column of the group, and then each row's composite is the
\* sum of the row's indicator values of the group, a missing value counting 0.
C13_CompositeCounts ==
    pc # "load" =>
        \A g \in Composites :
            /\ g[1] \in df.columns <=> Range(g[2]) \subseteq raw.columns
            /\ g[1] \in df.columns =>
                 \A i \in 1..NRows(df) :
                    df.rows[i].cell[g[1]]
                      = SumOver([c \in Range(g[2]) |->
                                   IF df.rows[i].cell[c] = NaNNum THEN 0 ELSE df.rows[i].cell[c]],
                                Range(g[2]))

C13_Witness ==
    /\ pc # "load"
    /\ "chronic_count" \in df.columns
    /\ "activity_count" \notin df.columns
    /\ \E i \in 1..NRows(df) : \E j \in 1..NRows(df) :
          /\ df.rows[i].cell["Diabetes"] = NaNNum /\ df.rows[i].cell["chronic_count"] = 0
          /\ df.rows[j].cell["chronic_count"] = 2

\* The summary s of the indicator group is the one the filtered table gives:
\* one line per available column, Count the column's sum with missing as 0,
\* Percentage = Count / rows * 100 (both 0 when there are no rows), the lines in
\* descending order of Count.
SummaryOf(s, group) ==
    LET available == Range(group) \cap filtered_df.columns
        n == NRows(filtered_df)
        Sum(c) == SumOver([i \in 1..n |-> IF filtered_df.rows[i].cell[c] = NaNNum THEN 0
                                          ELSE filtered_df.rows[i].cell[c]], 1..n)
    IN  IF available = {} THEN ~s.shown
        ELSE /\ s.shown
             /\ Len(s.rows) = Cardinality(available)
             /\ {s.rows[k].Name : k \in 1..Len(s.rows)} = available
             /\ \A k \in 1..Len(s.rows) :
                   /\ s.rows[k].Percentage.den # 0
                   /\ IF n > 0
                      THEN /\ s.rows[k].Count = Sum(s.rows[k].Name)
                           /\ s.rows[k].Percentage.num * n
                                = s.rows[k].Count * 100 * s.rows[k].Percentage.den
                      ELSE s.rows[k].Count = 0 /\ s.rows[k].Percentage.num = 0
             /\ \A k \in 1..(Len(s.rows) - 1) : s.rows[k].Count >= s.rows[k + 1].Count

\* C14: the chronic, activity and service summaries hold, for each available
\* column, count = the column's sum over the filtered rows and percentage =
\* count / rows * 100 (0 and 0 on zero rows), ordered by descending count.
C14_IndicatorSummary ==
    /\ tab1.ran => SummaryOf(tab1.chronic_df, chronic_columns)
    /\ tab2.ran => /\ SummaryOf(tab2.activity_df, activity_columns)
                   /\ SummaryOf(tab2.service_df, service_columns)

C14_Witness ==
    /\ tab2.ran
    /\ NRows(filtered_df) = 4
    /\ tab2.activity_df.shown
    /\ [k \in 1..3 |-> tab2.activity_df.rows[k].Name]
         = <<"Social events", "Physical activities", "Home care">>
    /\ [k \in 1..3 |-> tab2.activity_df.rows[k].Count] = <<3, 2, 1>>
    /\ \A k \in 1..3 :
          tab2.activity_df.rows[k].Percentage.num
            = <<75, 50, 25>>[k] * tab2.activity_df.rows[k].Percentage.den

\* Equality of two defined fractions.
FracEq(x, y) == x.den # 0 /\ y.den # 0 /\ x.num * y.den = y.num * x.den

\* Every percentage of the distribution d is count / total * 100 rounded to one
\* decimal, and 0 when the total is 0.
RoundedShares(d) ==
    d.shown =>
        \A v \in DOMAIN d.counts :
            FracEq(d.percentage[v],
                   IF d.total > 0 THEN Round1Percent(d.counts[v], d.total) ELSE Frac(0, 1))

\* C15: in the gender, age-bracket, overall-help-rating, social-impact and
\* physical-support-rating distributions every category's percentage is
\* count / total * 100 rounded to one decimal, and 0 when the total is 0.
C15_DistributionPercentages ==
    /\ tab1.ran => RoundedShares(tab1.gender_counts) /\ RoundedShares(tab1.age_counts)
    /\ tab2.ran => RoundedShares(tab2.rating_counts)
    /\ tab3.ran => RoundedShares(tab3.social_counts)
    /\ tab4.ran => RoundedShares(tab4.rating_counts)

\* The sum, in tenths of a percent, of the rounded percentages of the distribution d.
SumOfShares(d) == SumOver([v \in DOMAIN d.counts |-> d.percentage[v].num], DOMAIN d.counts)

\* How far that sum is from 100 percent, in tenths of a percent.
Deviation(d) == IF SumOfShares(d) >= 1000 THEN SumOfShares(d) - 1000 ELSE 1000 - SumOfShares(d)

\* The distribution d is drawn, has respondents and at most ten categories.
Summable(d) == d.shown /\ d.total > 0 /\ Cardinality(DOMAIN d.counts) <= 10

\* C16 as stated: the one-decimal percentages of a distribution with nonzero
\* total and at most 10 categories sum to 100 within 0.2.
C16_SumWithinTwoTenths ==
    tab1.ran =>
        /\ Summable(tab1.gender_counts) => Deviation(tab1.gender_counts) <= 2
        /\ Summable(tab1.age_counts) => Deviation(tab1.age_counts) <= 2

\* C16 (amended): the one-decimal percentages of a distribution with nonzero
\* total and at most 10 categories sum to 100 within 0.5.
C16_SumWithinFiveTenths ==
    tab1.ran =>
        /\ Summable(tab1.gender_counts) => Deviation(tab1.gender_counts) <= 5
        /\ Summable(tab1.age_counts) => Deviation(tab1.age_counts) <= 5

C16_Witness ==
    /\ tab1.ran
    /\ Summable(tab1.age_counts)
    /\ Cardinality(DOMAIN tab1.age_counts.counts) = 9
    /\ Deviation(tab1.age_counts) = 3

\* Bracket a stands before bracket b in the list 18-54, 55-69, 70-85, 85+, unknown.
ListedBefore(a, b) ==
    \E i \in 1..Len(age_order) : \E j \in (i + 1)..Len(age_order) :
        age_order[i] = a /\ age_order[j] = b

\* C17: the lines of the age distribution are the observed brackets, each once,
\* in the order 18-54, 55-69, 70-85, 85+, unknown whatever their counts or order
\* of appearance, with every bracket outside this list after the listed ones.
C17_AgeOrder ==
    (tab1.ran /\ "client_age_range" \in filtered_df.columns) =>
        LET s == tab1.age_sorted
        IN  /\ Range(s) = Options(filtered_df, "client_age_range")
            /\ Len(s) = Cardinality(Range(s))
            /\ \A i \in 1..Len(s) : \A j \in (i + 1)..Len(s) :
                  s[j] \in Range(age_order) => ListedBefore(s[i], s[j])

C17_Witness ==
    /\ tab1.ran
    /\ [i \in 1..NRows(filtered_df) |-> filtered_df.rows[i].cell["client_age_range"]]
         = <<"70-85", "18-54", "unknown", "55-69">>
    /\ tab1.age_sorted = <<"18-54", "55-69", "70-85", "unknown">>

\* The number of filtered rows of the category g of rowcol that have an answer in colcol.
RowTotal(rowcol, colcol, g) ==
    Cardinality({i \in 1..NRows(filtered_df) :
                    /\ filtered_df.rows[i].cell[rowcol] = g
                    /\ filtered_df.rows[i].cell[colcol] # NaN})

\* Every line of the cross-tabulation ct has defined cells that sum to 100, and a
\* category of rowcol whose total is zero has no cell other than 0.
RowsSumTo100(ct, rowcol, colcol) ==
    /\ \A r \in ct.index :
          /\ \A c \in ct.columns : ~IsUndefined(ct.cell[r][c])
          /\ RowTotal(rowcol, colcol, r) > 0
          /\ FracEq(SumFracs(ct.cell[r], ct.columns), Frac(100, 1))
    /\ \A g \in Options(filtered_df, rowcol) :
          RowTotal(rowcol, colcol, g) = 0 =>
              \/ g \notin ct.index
              \/ \A c \in ct.columns : FracEq(ct.cell[g][c], Frac(0, 1))

\* C18: in the cross-tabulations of activity frequency by age bracket and of
\* social impact by gender, every line with a nonzero total sums to 100, and a
\* category with a zero total shows no value other than 0, never NaN.
C18_CrosstabRows ==
    tab3.ran =>
        /\ tab3.activity_by_age.shown =>
               RowsSumTo100(tab3.activity_by_age.table, "client_age_range", activity_freq_col)
        /\ tab3.social_by_gender.shown =>
               RowsSumTo100(tab3.social_by_gender.table, "client_gender", social_col)

C18_Witness ==
    /\ tab3.ran
    /\ tab3.social_by_gender.shown
    /\ tab3.social_by_gender.table.index = {"Female"}
    /\ "Male" \in Options(filtered_df, "client_gender")
    /\ RowTotal("client_gender", social_col, "Male") = 0

\* C19: when a partition of hypothesis 2 has no member row, the evaluation does
\* not fail: it reports mean 0 and count 0 for that partition and a verdict.
C19_H2EmptyPartition ==
    /\ error # "AttributeError: .str"
    /\ Evaluated(h2) =>
          /\ PartitionRows(TRUE) = {} =>
                 h2.new_clients.count = 0 /\ FracEq(h2.new_clients.mean, Frac(0, 1))
          /\ PartitionRows(FALSE) = {} =>
                 h2.existing_clients.count = 0 /\ FracEq(h2.existing_clients.mean, Frac(0, 1))
          /\ h2.conclusion \in {"supported", "not supported"}

\* The filtered table as filter_dataframe returned it.
Pristine == Filter(df, selected)

\* Every row and every cell of the filtered table is as filter_dataframe
\* returned it: the evaluations have only added columns.
FrameKept ==
    /\ Pristine.columns \subseteq filtered_df.columns
    /\ IndexOf(filtered_df) = IndexOf(Pristine)
    /\ \A i \in 1..NRows(Pristine) : \A c \in Pristine.columns :
          filtered_df.rows[i].cell[c] = Pristine.rows[i].cell[c]

\* C20: the evaluations change no value that another evaluation or an
\* aggregation reads, and an evaluation whose columns are in the filtered table
\* yields its metrics and verdict whatever happened in the evaluations before
\* it: hypotheses 2 and 3 are not lost when hypothesis 1 fails, nor hypothesis 3
\* when hypothesis 2 fails.
C20_HypothesesIndependent ==
    Filtered =>
        /\ FrameKept
        /\ error = "KeyError: 'ID'" =>
              /\ ~({duration_column, rating_col} \subseteq filtered_df.columns)
              /\ ~({duration_column, general_health_col} \subseteq filtered_df.columns)
        /\ error = "AttributeError: .str" =>
              ~({duration_column, general_health_col} \subseteq filtered_df.columns)

\* C21: once load_data has returned, the loaded table is what load_data made of
\* the file at every later step, also when every criteria list is empty and
\* the evaluations add their columns to the filtered table.
C21_NoWriteBack ==
    pc \in {"sidebar", "filter", "tab1", "tab2", "tab3", "tab4", "hyp1", "hyp2", "hyp3",
            "done", "error"} => df = load_data(raw)

C21_Witness ==
    /\ pc = "done"
    /\ NRows(df) > 0
    /\ \A d \in Range(Dimensions) : selected[d] = {}
    /\ "physical_percent" \in filtered_df.columns
    /\ "physical_percent" \notin df.columns

\* Two entries of the correlation matrix hold the same value: both undefined, or
\* both defined with the same sign and the same square.
SameCoefficient(r, q) ==
    /\ r.defined = q.defined
    /\ r.defined =>
         /\ (r.cov > 0) = (q.cov > 0)
         /\ (r.cov < 0) = (q.cov < 0)
         /\ r.cov * r.cov * q.varx * q.vary = q.cov * q.cov * r.varx * r.vary

\* C22: the correlation matrix of the available chronic-condition columns is
\* symmetric, every defined off-diagonal entry lies in [-1, 1], and the diagonal
\* entry of a column with nonzero variance is exactly 1.
C22_CorrelationMatrix ==
    (tab1.ran /\ tab1.disease_corr.shown) =>
        LET m == tab1.disease_corr.matrix
        IN  \A a \in DOMAIN m : \A b \in DOMAIN m :
              /\ SameCoefficient(m[a][b], m[b][a])
              /\ (a # b /\ m[a][b].defined) => m[a][b].cov * m[a][b].cov <= m[a][b].varx * m[a][b].vary
              /\ (a = b /\ m[a][a].varx > 0) =>
                   /\ m[a][a].defined
                   /\ m[a][a].cov > 0
                   /\ m[a][a].cov * m[a][a].cov = m[a][a].varx * m[a][a].vary

\* A matrix with a defined off-diagonal entry strictly between -1 and 1 that is
\* not 0, over columns of which one has a missing answer.
C22_Witness ==
    /\ tab1.ran
    /\ tab1.disease_corr.shown
    /\ \E i \in 1..NRows(filtered_df) : filtered_df.rows[i].cell["Diabetes"] = NaNNum
    /\ LET r == tab1.disease_corr.matrix["chronic cardiovascular"]["Diabetes"]
       IN  r.defined /\ r.cov # 0 /\ r.cov * r.cov < r.varx * r.vary

\* C23: whatever the filtered table holds, also when no row has the frequency
\* 'Several times a week' or no row has both an age bracket and a frequency, the
\* cross-tabulation of activity frequency by age and its summary raise no error.
C23_CrosstabSummaryCompletes ==
    error # "KeyError: 'Several times a week'"

\* C24: the health-control distribution and the general-health self-assessment
\* distribution are computed whenever their own column is in the schema, whether
\* or not the physical-support-rating column is.
C24_GatedByOwnColumns ==
    (tab4.ran /\ error = "none") =>
        /\ health_control_col \in filtered_df.columns => tab4.health_control_counts.shown
        /\ general_health_col \in filtered_df.columns => tab4.general_health_counts.shown

\* The rows of the filtered table whose age bracket is g.
BracketRows(g) ==
    {i \in 1..NRows(filtered_df) : filtered_df.rows[i].cell["client_age_range"] = g}

\* The indicator columns of the list group that the filtered table holds.
Present(group) == SelectSeq(group, LAMBDA col : col \in filtered_df.columns)

\* The sum of the values of the columns group over the rows S, a missing value as 0.
IndicatorTotal(group, S) ==
    SumOver([i \in 1..NRows(filtered_df) |-> SumCells(filtered_df.rows[i].cell, group)], S)

\* The mean over the rows of bracket g of (sum of the row's group values / number
\* of group columns), as a percentage.
BracketMean(group, g) ==
    Frac(100 * IndicatorTotal(group, BracketRows(g)), Len(group) * Cardinality(BracketRows(g)))

\* The unweighted mean of the bracket means over the brackets that have a row.
SideMean(group, brackets) ==
    LET G == {g \in brackets : BracketRows(g) # {}}
        total == SumFracs([g \in G |-> BracketMean(group, g)], G)
    IN  IF G = {} THEN Undefined ELSE Frac(total.num, total.den * Cardinality(G))

\* Two values are the same number, or both undefined.
SameValue(x, y) == IF IsUndefined(x) \/ IsUndefined(y) THEN IsUndefined(x) /\ IsUndefined(y)
                   ELSE FracEq(x, y)

\* C25: the younger and older values of hypothesis 1 are the unweighted means of
\* the per-bracket means (as percentages) over the brackets of their side that
\* have a row, so rows of bracket 'unknown' or without a bracket contribute
\* nothing, and each row's physical_percent is the sum of its available physical
\* indicator values (missing as 0) over the number of those columns.
C25_H1Metrics ==
    Evaluated(h1) =>
        /\ SameValue(h1.younger_physical, SideMean(Present(physical_cols), {"18-54", "55-69"}))
        /\ SameValue(h1.older_physical, SideMean(Present(physical_cols), {"70-85", "85+"}))
        /\ SameValue(h1.younger_psycho, SideMean(Present(psycho_cols), {"18-54", "55-69"}))
        /\ SameValue(h1.older_psycho, SideMean(Present(psycho_cols), {"70-85", "85+"}))
        /\ \A i \in 1..NRows(filtered_df) :
             FracEq(filtered_df.rows[i].cell["physical_percent"],
                    Frac(SumCells(filtered_df.rows[i].cell, Present(physical_cols)),
                         Len(Present(physical_cols))))

\* Two clients of bracket 18-54 and one of 55-69 with different bracket means,
\* among them one with a missing physical answer.
C25_Witness ==
    /\ Evaluated(h1)
    /\ Cardinality(BracketRows("18-54")) = 2
    /\ Cardinality(BracketRows("55-69")) = 1
    /\ ~SameValue(BracketMean(Present(physical_cols), "18-54"),
                  BracketMean(Present(physical_cols), "55-69"))
    /\ \E i \in BracketRows("18-54") : filtered_df.rows[i].cell["Physical rehabilitation"] = NaNNum

\* C26: from the return of filter_dataframe to the end of the run the filtered
\* table holds the same rows, in the same order: the steps add columns and
\* neither add nor remove a row.
C26_SameRows ==
    Filtered => IndexOf(filtered_df) = IndexOf(Pristine)

\* A finished run in which hypothesis 1 set the 'unknown' rows aside for its
\* grouping and hypothesis 1 added its columns.
C26_Witness ==
    /\ pc = "done"
    /\ Evaluated(h1)
    /\ "psychosocial_percent" \in filtered_df.columns
    /\ \E i \in 1..NRows(filtered_df) : filtered_df.rows[i].cell["client_age_range"] = "unknown"
    /\ \E i \in 1..NRows(filtered_df) : filtered_df.rows[i].cell["client_age_range"] # "unknown"

\* The rows of the filtered table that have both a duration ordinal and a health score.
ScoredRows ==
    {i \in 1..NRows(filtered_df) : /\ filtered_df.rows[i].cell["duration_score"] # NaNNum
                                   /\ filtered_df.rows[i].cell["health_score"] # NaNNum}

\* Every row of ScoredRows holds the same value in column col.
Constant(col) ==
    \A i \in ScoredRows : \A j \in ScoredRows :
        filtered_df.rows[i].cell[col] = filtered_df.rows[j].cell[col]

\* C27: when fewer than two rows have both a duration ordinal and a health
\* score, or one of the two is the same in all of them, the coefficient of
\* hypothesis 3 is undefined, the step ends without an error and its verdict is
\* the 'negative correlation' one.
C27_H3UndefinedCorrelation ==
    (Evaluated(h3) /\ (Cardinality(ScoredRows) < 2 \/ Constant("duration_score")
                                                   \/ Constant("health_score"))) =>
        /\ ~h3.correlation.defined
        /\ h3.conclusion = "not supported (negative correlation)"
        /\ pc = "done"
        /\ error = "none"

\* Two clients of the same duration with different health scores.
C27_Witness ==
    /\ Evaluated(h3)
    /\ Cardinality(ScoredRows) = 2
    /\ Constant("duration_score")
    /\ ~Constant("health_score")
    /\ h3.conclusion = "not supported (negative correlation)"

\* The rows of the filtered table whose duration label contains '1-3', and the others.
OneToThreeRows ==
    {i \in 1..NRows(filtered_df) : filtered_df.rows[i].cell[duration_column] \in ContainsOneToThree}

OtherRows == (1..NRows(filtered_df)) \ OneToThreeRows

\* The sum of the ratings of the rows S that hold one.
RatingSum(S) ==
    SumOver([i \in 1..NRows(filtered_df) |-> filtered_df.rows[i].cell[rating_col]],
            {i \in S : filtered_df.rows[i].cell[rating_col] # NaNNum})

\* C28: once hypothesis 2 has had its turn on a table with the duration and
\* rating columns, a table with no row in the new partition and a positive mean
\* rating in the existing one has the verdict 'supported', and a table with no
\* row in the existing partition has the verdict 'not supported'.
C28_H2OneSided ==
    (h2.ran /\ {duration_column, rating_col} \subseteq filtered_df.columns) =>
        /\ (OneToThreeRows = {} /\ RatingSum(OtherRows) > 0) =>
               h2.evaluated /\ h2.conclusion = "supported"
        /\ OtherRows = {} => h2.evaluated /\ h2.conclusion = "not supported"

\* No row of the filtered table is of one of the given brackets.
SideEmpty(brackets) == \A g \in brackets : BracketRows(g) = {}

\* C29: once hypothesis 1 has had its turn on a table with the age bracket and
\* at least one physical and one psychosocial indicator column, a table with no
\* row in the younger brackets, or none in the older ones, has undefined values
\* on that side and the verdict 'not supported'; the step raises no error.
C29_H1MissingSide ==
    (/\ h1.ran
     /\ "client_age_range" \in filtered_df.columns
     /\ Present(physical_cols) # << >>
     /\ Present(psycho_cols) # << >>) =>
        /\ SideEmpty({"18-54", "55-69"}) =>
              /\ h1.evaluated
              /\ IsUndefined(h1.younger_physical) /\ IsUndefined(h1.younger_psycho)
              /\ h1.conclusion = "not supported"
        /\ SideEmpty({"70-85", "85+"}) =>
              /\ h1.evaluated
              /\ IsUndefined(h1.older_physical) /\ IsUndefined(h1.older_psycho)
              /\ h1.conclusion = "not supported"

\* The summary s of the group and the composite column name go with the file's
\* schema: with some but not all columns of the group s is computed over exactly
\* the present columns and the composite is absent; s is skipped exactly when no
\* column of the group is present.
PartialGroup(s, name, group) ==
    LET present == Range(group) \cap raw.columns
    IN  /\ s.shown <=> present # {}
        /\ (present # {} /\ present # Range(group)) =>
              /\ SummaryOf(s, group)
              /\ {s.rows[k].Name : k \in 1..Len(s.rows)} = present
              /\ name \notin df.columns
              /\ name \notin filtered_df.columns

\* C30: when the file holds only some columns of an indicator group, the
\* group's summary (counts, percentages, descending order) is computed over
\* exactly the present columns and the group's composite count column does not
\* exist; the summary is skipped only when the file holds no column of the group.
C30_PartialIndicatorGroup ==
    /\ tab1.ran => PartialGroup(tab1.chronic_df, "chronic_count", chronic_columns)
    /\ tab2.ran => /\ PartialGroup(tab2.activity_df, "activity_count", activity_columns)
                   /\ PartialGroup(tab2.service_df, "service_count", service_columns)

\* A file with three of the activity columns and none of the other groups.
C30_Witness ==
    /\ tab2.ran
    /\ NRows(filtered_df) > 0
    /\ Range(activity_columns) \cap raw.columns = ThreeActivities
    /\ Len(tab2.activity_df.rows) = 3
    /\ "activity_count" \notin filtered_df.columns
    /\ ~tab2.service_df.shown
    /\ ~tab1.chronic_df.shown

====
